---- MODULE Spec2Model ----
(***************************************************************************)
(* Display-width text formatting of TikTokDownloader.py: strip_ansi,      *)
(* char_width, display_width, truncate_to_width and the box line          *)
(* composers format_kv_line / format_menu_line.                           *)
(*                                                                         *)
(* A text is a sequence of Unicode code points (naturals).  The Unicode   *)
(* property lookups of the unicodedata module are given by their values   *)
(* on the blocks the model's characters come from.                        *)
(***************************************************************************)
EXTENDS Integers, Sequences, FiniteSets, TLC

\* ---------------------------------------------------------------- bounds
MaxLen == 4        \* visible characters typed into a text
MaxAnsi == 1       \* colour sequences inserted into a text
MaxWidth == 6      \* largest truncation budget tried
MaxValueLen == 3   \* characters of a value / menu text
MaxInner == 16     \* largest inner width tried besides BOX_INNER_WIDTH
MaxRawLen == 6     \* characters of a raw text given to strip_ansi

\* ------------------------------------------------------------ characters
ESC == 27          \* '\x1b'
LBRACKET == 91     \* '['
LOWER_M == 109     \* 'm'
DOT == 46          \* '.'
SPACE == 32        \* ' '

NarrowChars == {97}          \* 'a'
WideChars == {24744}         \* U+60A8, East Asian Wide
CombiningChars == {769}      \* U+0301 COMBINING ACUTE ACCENT
Alphabet == NarrowChars \cup WideChars \cup CombiningChars \cup {DOT}

\* colour constants
BLUE == <<27, 91, 49, 59, 51, 52, 109>>                      \* '\033[1;34m'
CYAN == <<27, 91, 49, 59, 51, 56, 59, 53, 59, 53, 49, 109>>  \* '\033[1;38;5;51m'
GRAY == <<27, 91, 49, 59, 51, 48, 109>>                      \* '\033[1;30m'
GREEN2 == <<27, 91, 49, 59, 51, 56, 59, 53, 59, 52, 55, 109>> \* '\033[1;38;5;47m'
RESET == <<27, 91, 48, 109>>                                 \* '\033[0m'
WHITE == <<27, 91, 52, 55, 109>>                             \* '\033[47m'
BOX_INNER_WIDTH == 69

AnsiCodes == {RESET}
Budgets == {0 - 1} \cup (0 .. MaxWidth)
RawAlphabet == {ESC, LBRACKET, 48, LOWER_M, 97}      \* ESC, '[', '0', 'm', 'a'

\* --------------------------------------------------- unicodedata lookups
\* unicodedata.combining(ch): canonical combining class, 0 for a base
\* character; the Combining Diacritical Marks block U+0300..U+036F is non-zero.
combining(ch) == IF ch \in 768 .. 879 THEN 230 ELSE 0

\* unicodedata.east_asian_width(ch)
east_asian_width(ch) ==
  IF ch \in 19968 .. 40959 THEN "W"              \* CJK Unified Ideographs
  ELSE IF ch \in 12289 .. 12350 THEN "W"         \* CJK punctuation, U+3010 and U+3011
  ELSE IF ch = 12288 \/ ch \in 65281 .. 65376 THEN "F"
  ELSE IF ch \in 32 .. 126 THEN "Na"
  ELSE IF ch \in {9474, 9679, 9472, 9581, 9582} THEN "A"   \* box drawing, black circle
  ELSE "N"

\* ------------------------------------------------------------ strip_ansi
IsParam(ch) == ch \in 48 .. 57 \/ ch = 59        \* [0-9;]

RECURSIVE SkipParams(_, _)
\* [0-9;]* is greedy: first index at or after i holding no digit and no ';'
SkipParams(text, i) ==
  IF i <= Len(text) /\ IsParam(text[i]) THEN SkipParams(text, i + 1) ELSE i

\* ANSI_RE with [0-9;]+ in place of [0-9;]*
ANSI_RE_one_param(text, i) ==
  IF i + 1 <= Len(text) /\ text[i] = ESC /\ text[i + 1] = LBRACKET
  THEN LET j == SkipParams(text, i + 2)
       IN  IF j > i + 2 /\ j <= Len(text) /\ text[j] = LOWER_M THEN j + 1 ELSE 0
  ELSE 0

\* ANSI_RE tried at index i: the index just past the match, 0 when no match
ANSI_RE(text, i) ==
  IF i + 1 <= Len(text) /\ text[i] = ESC /\ text[i + 1] = LBRACKET
  THEN LET j == SkipParams(text, i + 2)
       IN  IF j <= Len(text) /\ text[j] = LOWER_M THEN j + 1 ELSE 0
  ELSE 0

\* the matches of ANSI_RE in text, each as <<first index, index just past it>>.
\* A match holds ESC at its first index only, so no match starts inside
\* another one and the leftmost, non-overlapping matches that re.sub replaces
\* are all the matches.
Matches(text) ==
  {<<s, ANSI_RE(text, s)>> :
     s \in {k \in 1 .. Len(text) : text[k] = ESC /\ ANSI_RE(text, k) # 0}}

\* ANSI_RE.sub('', text): the characters outside every match, in order
strip_ansi(text) ==
  LET matches == Matches(text)
      indexed == [i \in 1 .. Len(text) |-> <<i, text[i]>>]
      Outside(p) == \A m \in matches : p[1] < m[1] \/ p[1] >= m[2]
      kept == SelectSeq(indexed, Outside)
  IN  [k \in 1 .. Len(kept) |-> kept[k][2]]

\* ------------------------------------------------- char_width, display_width
char_width(ch) == IF combining(ch) # 0 THEN 0 ELSE 1

RECURSIVE WidthLoop(_, _, _)
\* the for loop of display_width over s[lo .. hi]: the sum of the widths it
\* adds, halving the range to keep the evaluation shallow
WidthLoop(s, lo, hi) ==
  IF lo > hi THEN 0
  ELSE IF lo = hi
       THEN (IF combining(s[lo]) # 0 THEN 0
             ELSE IF east_asian_width(s[lo]) \in {"W", "F"} THEN 2 ELSE 1)
       ELSE LET mid == (lo + hi) \div 2
            IN  WidthLoop(s, lo, mid) + WidthLoop(s, mid + 1, hi)

\* display_width with the colour codes left in the measured text
display_width_unstripped(text) == WidthLoop(text, 1, Len(text))

display_width(text) ==
  LET s == strip_ansi(text) IN WidthLoop(s, 1, Len(s))

\* ------------------------------------------------------ truncate_to_width
ELLIPSIS == <<DOT, DOT, DOT>>

RECURSIVE TakeLoop(_, _, _, _)
\* the for loop: <<number of characters appended to out, width>>
TakeLoop(text, i, width, max_width) ==
  IF i > Len(text) THEN <<i - 1, width>>
  ELSE LET ch_width == char_width(text[i])
       IN  IF width + ch_width > max_width THEN <<i - 1, width>>
           ELSE TakeLoop(text, i + 1, width + ch_width, max_width)

RECURSIVE PopLoopNoReserve(_, _)
\* PopLoop with the three ellipsis columns not reserved
PopLoopNoReserve(out, max_width) ==
  IF Len(out) > 0 /\ display_width(out) > max_width
  THEN PopLoopNoReserve(SubSeq(out, 1, Len(out) - 1), max_width)
  ELSE out

RECURSIVE PopLoop(_, _)
\* while out and display_width(out) + 3 > max_width: out.pop()
PopLoop(out, max_width) ==
  IF Len(out) > 0 /\ display_width(out) + 3 > max_width
  THEN PopLoop(SubSeq(out, 1, Len(out) - 1), max_width)
  ELSE out

\* truncate_to_width with the guard max_width < 0
truncate_to_width_zero_budget(text, max_width) ==
  IF max_width < 0 THEN << >>
  ELSE LET r == TakeLoop(text, 1, 0, max_width)
           out == SubSeq(text, 1, r[1])
           width == r[2]
       IN  IF width < display_width(text) /\ max_width >= 3
           THEN PopLoop(out, max_width) \o ELLIPSIS
           ELSE out

truncate_to_width(text, max_width) ==
  IF max_width <= 0 THEN << >>
  ELSE LET r == TakeLoop(text, 1, 0, max_width)
           out == SubSeq(text, 1, r[1])
           width == r[2]
       IN  IF width < display_width(text) /\ max_width >= 3
           THEN PopLoop(out, max_width) \o ELLIPSIS
           ELSE out

\* --------------------------------------------------------- line composers
LENTICULAR_L == 12304   \* U+3010
LENTICULAR_R == 12305   \* U+3011
BULLET == 9679          \* U+25CF
BORDER == 9474          \* U+2502
COLON == 58             \* ':'

DASH == 9472            \* U+2500
CORNER_L == 9581        \* U+256D
CORNER_R == 9582        \* U+256E
LESS == 60              \* '<'
GREATER == 62           \* '>'

\* the value None, kept apart from every text
NONE == <<0 - 1>>

\* str(v): a str is returned as it is, None becomes the text "None"
str(v) == IF v = NONE THEN <<78, 111, 110, 101>> ELSE v

Spaces(n) == [i \in 1 .. n |-> SPACE]

\* '─' * n, the empty text for n <= 0
Dashes(n) == [i \in 1 .. n |-> DASH]

\* prefix of format_kv_line with the default label_color and value_color
kv_prefix(lbl) ==
  <<SPACE>> \o GRAY \o <<LENTICULAR_L>> \o RESET \o <<BULLET>> \o GRAY
    \o <<LENTICULAR_R>> \o CYAN \o lbl \o <<COLON, SPACE>> \o BLUE

\* format_kv_line truncating the value to the whole inner width
format_kv_line_full_budget(lbl, val, width) ==
  LET prefix == kv_prefix(lbl)
      value_text == truncate_to_width(IF val = NONE THEN << >> ELSE str(val), width)
      content == prefix \o value_text \o BLUE
      pad == width - display_width(content)
      padding == IF pad < 0 THEN 0 ELSE pad
  IN  BLUE \o <<BORDER>> \o content \o Spaces(padding) \o BLUE \o <<BORDER>>

format_kv_line(lbl, val, width) ==
  LET prefix == kv_prefix(lbl)
      max_value_width == width - display_width(prefix)
      value_text == truncate_to_width(IF val = NONE THEN << >> ELSE str(val),
                                      max_value_width)
      content == prefix \o value_text \o BLUE
      pad == width - display_width(content)
      padding == IF pad < 0 THEN 0 ELSE pad
  IN  BLUE \o <<BORDER>> \o content \o Spaces(padding) \o BLUE \o <<BORDER>>

\* prefix of format_menu_line with the default color
menu_prefix(idx) ==
  <<SPACE>> \o GRAY \o <<LENTICULAR_L>> \o RESET \o idx \o GRAY
    \o <<LENTICULAR_R>> \o GREEN2

format_menu_line(idx, txt, width) ==
  LET prefix == menu_prefix(idx)
      max_text_width == width - display_width(prefix)
      shown == truncate_to_width(str(txt), max_text_width)
      content == prefix \o shown \o BLUE
      pad == width - display_width(content)
      padding == IF pad < 0 THEN 0 ELSE pad
  IN  BLUE \o <<BORDER>> \o content \o Spaces(padding) \o BLUE \o <<BORDER>>

\* box_header with the odd dash on the left
box_header_odd_left(title, total) ==
  LET inner == total - 2
      label_visible == <<SPACE, LESS, SPACE>> \o title \o <<SPACE, GREATER, SPACE>>
      label_colored == <<SPACE, LESS>> \o WHITE \o GRAY \o <<SPACE>> \o title
                         \o <<SPACE>> \o WHITE \o RESET \o BLUE \o <<GREATER, SPACE>>
      dash_count == inner - display_width(label_visible)
      right == dash_count \div 2
      left == dash_count - right
  IN  BLUE \o <<CORNER_L>> \o Dashes(left) \o label_colored \o Dashes(right)
        \o <<CORNER_R>>

\* dash_count // 2 is floor division, as \div is
box_header(title, total) ==
  LET inner == total - 2
      label_visible == <<SPACE, LESS, SPACE>> \o title \o <<SPACE, GREATER, SPACE>>
      label_colored == <<SPACE, LESS>> \o WHITE \o GRAY \o <<SPACE>> \o title
                         \o <<SPACE>> \o WHITE \o RESET \o BLUE \o <<GREATER, SPACE>>
      dash_count == inner - display_width(label_visible)
      left == dash_count \div 2
      right == dash_count - left
  IN  BLUE \o <<CORNER_L>> \o Dashes(left) \o label_colored \o Dashes(right)
        \o <<CORNER_R>>

\* arguments tried
Labels == {<< >>, <<84, 105, 116, 108, 101>>, <<24744>>}     \* "", "Title", U+60A8
Indexes == {<<49>>, <<48, 49, 47, 65>>}                      \* "1", "01/A"
InnerWidths == ((0 - 2) .. MaxInner) \cup {20, BOX_INNER_WIDTH}
TotalWidths == {w + 2 : w \in InnerWidths}

\* ------------------------------------------------- directories and files
\* paths are texts; the set below is every directory the runs mention
default_download_dir == <<47, 100>>
DirA == <<47, 97>>
DirASpace == <<47, 97, 32>>
Paths == {default_download_dir, DirA, DirASpace}

\* value of os.path.exists(config_file) being false: there is no such file
MISSING == <<0 - 2>>

\* what a config file can hold: a path written by set_download_dir, or a
\* path saved by an editor (newline at the end), or nothing
ConfigContents == Paths \cup {DirA \o <<10>>, << >>}

\* str.strip(): code points str.isspace() accepts, ASCII range
WHITESPACE == {9, 10, 11, 12, 13, 28, 29, 30, 31, 32}

strip(s) ==
  LET kept == {i \in 1 .. Len(s) : s[i] \notin WHITESPACE}
  IN IF kept = {} THEN << >>
     ELSE SubSeq(s, CHOOSE i \in kept : \A j \in kept : i <= j,
                    CHOOSE i \in kept : \A j \in kept : j <= i)

\* str.lower(), ASCII range
lower(s) ==
  [i \in 1 .. Len(s) |-> IF s[i] \in 65 .. 90 THEN s[i] + 32 ELSE s[i]]

\* ------------------------------------------------------------------ state
VARIABLES
  text,        \* the text argument, colour codes included
  plain,       \* the visible characters typed into text, in order
  inserted,    \* number of colour codes typed into text
  max_width,   \* budget of the last truncate_to_width call
  result,      \* its return value
  again,       \* return value of truncating result to the same budget
  measured,    \* return value of the last display_width call
  label,       \* label argument of format_kv_line
  index,       \* index argument of format_menu_line
  value,       \* value argument of format_kv_line / text argument of format_menu_line
  inner_width, \* inner_width argument of the last composer call
  total_width, \* total_width argument of the last box_header call
  line,        \* the line the composer returned
  existing,      \* directories for which os.path.exists is true
  writable,      \* directories in which a temporary file can be created
  config_file,   \* content of the config file, MISSING when there is none
  FirtTime,      \* whether the first-time marker file exists
  download_base, \* the global download_base
  returned,      \* return value of the last load_download_dir call
  set_ok,        \* path of the last set_download_dir that succeeded, NONE once the config is edited
  argv,          \* sys.argv[1], NONE when no argument was given
  stack,         \* call sites of the active calls, innermost last
  exc,           \* class of the exception that ended the last step, "none" otherwise
  printed,       \* boxes printed by the last step, in order
  http_requests, \* number of requests.get calls issued
  log_entries,   \* number of entries in tiktok_downloader_error_logs.txt
  tiktok_link,   \* link typed at the last link prompt
  response,      \* API response to the last request, PENDING while none arrived
  exit_opt,      \* answer typed at the last exit prompt
  event,         \* what the last step reacted to
  zip_title,     \* title argument of download_zip
  links,         \* links argument of download_zip
  dirs,          \* directories on disk, each the tuple of its path components
  files,         \* files on disk, each the tuple of its path components
  zipf,          \* arcnames of the entries of the archive, in order
  img_i,         \* loop variable i of download_zip, 0 before the loop
  pc             \* which call returned last / where the program waits

textVars == <<text, plain, inserted, max_width, result, again, measured>>
lineVars == <<label, index, value, inner_width, total_width, line>>
\* no API response has arrived
PENDING == [data |-> FALSE, success |-> FALSE, title |-> "pending", audio |-> "pending",
            media |-> "pending"]

dirVars == <<existing, writable, config_file, FirtTime, download_base, returned, set_ok>>
mainVars == <<argv, stack, exc, printed, http_requests, log_entries, tiktok_link, response,
              exit_opt, event>>
zipVars == <<zip_title, links, dirs, files, zipf, img_i>>
progVars == <<dirVars, mainVars, zipVars>>
vars == <<textVars, lineVars, dirVars, mainVars, zipVars, pc>>

\* download_zip has not been called
ZipIdle ==
  /\ zip_title = << >>
  /\ links = << >>
  /\ dirs = {}
  /\ files = {}
  /\ zipf = << >>
  /\ img_i = 0

\* the program is not running: nothing set, nothing printed
RunIdle ==
  /\ existing = {default_download_dir}
  /\ writable = {default_download_dir}
  /\ config_file = MISSING
  /\ FirtTime = FALSE
  /\ download_base = default_download_dir
  /\ returned = NONE
  /\ set_ok = NONE
  /\ argv = NONE
  /\ stack = << >>
  /\ exc = "none"
  /\ printed = << >>
  /\ http_requests = 0
  /\ log_entries = 0
  /\ tiktok_link = << >>
  /\ response = PENDING
  /\ exit_opt = << >>
  /\ event = <<"none", "">>

ProgramIdle ==
  /\ RunIdle
  /\ ZipIdle

Init ==
  /\ text = << >>
  /\ plain = << >>
  /\ inserted = 0
  /\ max_width = 0
  /\ result = << >>
  /\ again = << >>
  /\ measured = 0
  /\ label = << >>
  /\ index = << >>
  /\ value = << >>
  /\ inner_width = 0
  /\ total_width = 0
  /\ line = << >>
  /\ pc = "input"
  /\ ProgramIdle

\* the caller extends the argument by one visible character
TypeChar(ch) ==
  /\ Len(plain) < MaxLen
  /\ text' = Append(text, ch)
  /\ plain' = Append(plain, ch)
  /\ pc' = "input"
  /\ max_width' = 0
  /\ result' = << >>
  /\ again' = << >>
  /\ measured' = 0
  /\ UNCHANGED <<inserted, lineVars>>
  /\ UNCHANGED progVars

\* the caller extends the argument by one colour code
TypeAnsi(code) ==
  /\ inserted < MaxAnsi
  /\ text' = text \o code
  /\ inserted' = inserted + 1
  /\ pc' = "input"
  /\ max_width' = 0
  /\ result' = << >>
  /\ again' = << >>
  /\ measured' = 0
  /\ UNCHANGED <<plain, lineVars>>
  /\ UNCHANGED progVars

Truncate(w) ==
  /\ pc = "input"
  /\ max_width' = w
  /\ result' = truncate_to_width(text, w)
  /\ pc' = "truncated"
  /\ UNCHANGED <<text, plain, inserted, again, measured, lineVars>>
  /\ UNCHANGED progVars

\* the result is truncated once more, to the same budget
Retruncate ==
  /\ pc = "truncated"
  /\ again' = truncate_to_width(result, max_width)
  /\ pc' = "retruncated"
  /\ UNCHANGED <<text, plain, inserted, max_width, result, measured, lineVars>>
  /\ UNCHANGED progVars

Measure ==
  /\ pc = "input"
  /\ measured' = display_width(text)
  /\ pc' = "measured"
  /\ UNCHANGED <<text, plain, inserted, max_width, result, again, lineVars>>
  /\ UNCHANGED progVars

Next ==
  \/ \E ch \in Alphabet : TypeChar(ch)
  \/ \E code \in AnsiCodes : TypeAnsi(code)
  \/ \E w \in Budgets : Truncate(w)
  \/ Retruncate
  \/ Measure

Spec == Init /\ [][Next]_vars

\* ---------------------------------------------- composing bordered lines
InitLine ==
  /\ text = << >>
  /\ plain = << >>
  /\ inserted = 0
  /\ max_width = 0
  /\ result = << >>
  /\ again = << >>
  /\ measured = 0
  /\ label = << >>
  /\ index = << >>
  /\ value = << >>
  /\ inner_width = 0
  /\ total_width = 0
  /\ line = << >>
  /\ pc = "compose"
  /\ ProgramIdle

\* the caller extends the value / menu text / title by one character
TypeValue(ch) ==
  /\ value # NONE
  /\ Len(value) < MaxValueLen
  /\ value' = Append(value, ch)
  /\ label' = << >>
  /\ index' = << >>
  /\ inner_width' = 0
  /\ total_width' = 0
  /\ line' = << >>
  /\ pc' = "compose"
  /\ UNCHANGED textVars
  /\ UNCHANGED progVars

FormatKv(lbl, width) ==
  /\ pc = "compose"
  /\ label' = lbl
  /\ inner_width' = width
  /\ line' = format_kv_line(lbl, value, width)
  /\ pc' = "kv"
  /\ UNCHANGED <<index, value, total_width, textVars>>
  /\ UNCHANGED progVars

FormatMenu(idx, width) ==
  /\ pc = "compose"
  /\ index' = idx
  /\ inner_width' = width
  /\ line' = format_menu_line(idx, value, width)
  /\ pc' = "menu"
  /\ UNCHANGED <<label, value, total_width, textVars>>
  /\ UNCHANGED progVars

\* the caller passes None where a value is expected
PassNone ==
  /\ pc = "compose"
  /\ value = << >>
  /\ line = << >>
  /\ value' = NONE
  /\ UNCHANGED <<label, index, inner_width, total_width, line, textVars, pc>>
  /\ UNCHANGED progVars

BoxHeader(total) ==
  /\ pc = "compose"
  /\ value # NONE
  /\ total_width' = total
  /\ line' = box_header(value, total)
  /\ pc' = "header"
  /\ UNCHANGED <<label, index, value, inner_width, textVars>>
  /\ UNCHANGED progVars

NextLine ==
  \/ \E ch \in Alphabet : TypeValue(ch)
  \/ PassNone
  \/ \E total \in TotalWidths : BoxHeader(total)
  \/ \E lbl \in Labels, width \in InnerWidths : FormatKv(lbl, width)
  \/ \E idx \in Indexes, width \in InnerWidths : FormatMenu(idx, width)

SpecLine == InitLine /\ [][NextLine]_vars

\* ------------------------------------------------ stripping raw texts
InitStrip ==
  /\ text = << >>
  /\ plain = << >>
  /\ inserted = 0
  /\ max_width = 0
  /\ result = << >>
  /\ again = << >>
  /\ measured = 0
  /\ label = << >>
  /\ index = << >>
  /\ value = << >>
  /\ inner_width = 0
  /\ total_width = 0
  /\ line = << >>
  /\ pc = "raw"
  /\ ProgramIdle

\* the caller extends the argument by one character, ESC and '[' included
TypeRaw(ch) ==
  /\ Len(text) < MaxRawLen
  /\ text' = Append(text, ch)
  /\ result' = << >>
  /\ again' = << >>
  /\ pc' = "raw"
  /\ UNCHANGED <<plain, inserted, max_width, measured, lineVars>>
  /\ UNCHANGED progVars

Strip ==
  /\ pc = "raw"
  /\ result' = strip_ansi(text)
  /\ pc' = "stripped"
  /\ UNCHANGED <<text, plain, inserted, max_width, again, measured, lineVars>>
  /\ UNCHANGED progVars

\* the result is stripped once more
Restrip ==
  /\ pc = "stripped"
  /\ again' = strip_ansi(result)
  /\ pc' = "restripped"
  /\ UNCHANGED <<text, plain, inserted, max_width, result, measured, lineVars>>
  /\ UNCHANGED progVars

NextStrip ==
  \/ \E ch \in RawAlphabet : TypeRaw(ch)
  \/ Strip
  \/ Restrip

SpecStrip == InitStrip /\ [][NextStrip]_vars

\* ------------------------------------------- the download directory setting
\* os.path.exists(path) for a directory path
exists(path) == path \in existing

\* the boxes the functions below print
BOX_STORED_PATH_MISSING == "Stored path in config file does not exist"
BOX_CONFIG_NOT_FOUND == "Config file not found"
BOX_DIR_SET == "Download Directory set to"
BOX_PERMISSION == "Make sure you have the permissions"
BOX_INVALID_PATH == "Invalid path"
BOX_USAGE == "usage"

\* load_download_dir without the test that the stored path exists
load_download_dir_unchecked ==
  IF config_file # MISSING
    THEN [value |-> strip(config_file), printed |-> << >>]
    ELSE [value |-> default_download_dir, printed |-> <<BOX_CONFIG_NOT_FOUND>>]

\* load_download_dir(): the value it returns and assigns to download_base
load_download_dir ==
  IF config_file # MISSING
    THEN LET path == strip(config_file)
         IN IF exists(path)
              THEN [value |-> path, printed |-> << >>]
              ELSE [value |-> default_download_dir, printed |-> <<BOX_STORED_PATH_MISSING>>]
    ELSE [value |-> default_download_dir, printed |-> <<BOX_CONFIG_NOT_FOUND>>]

\* log_error(exception): its first statement reads the name e, which is
\* bound neither in the function nor in the module, so the call raises
\* NameError before the log file is opened
log_error(entries) == [raised |-> "NameError", log_entries |-> entries]

\* set_download_dir(path): the files and the global after the call, the
\* boxes printed, and the exception that leaves the function
set_download_dir(path) ==
  IF exists(path)
    THEN IF path \in writable
           THEN [download_base |-> path, config_file |-> path, FirtTime |-> TRUE,
                 printed |-> <<BOX_DIR_SET>>, raised |-> "none",
                 log_entries |-> log_entries]
           ELSE LET logged == log_error(log_entries)
                IN [download_base |-> path, config_file |-> config_file,
                    FirtTime |-> FirtTime,
                    printed |-> IF logged.raised = "none" THEN <<BOX_PERMISSION>> ELSE << >>,
                    raised |-> logged.raised, log_entries |-> logged.log_entries]
    ELSE [download_base |-> download_base, config_file |-> config_file,
          FirtTime |-> FirtTime, printed |-> <<BOX_INVALID_PATH>>, raised |-> "none",
          log_entries |-> log_entries]

\* main, from the argument check to the usage check: the state before the
\* link prompt, or the exception that left set_download_dir
main_setup(path) ==
  LET set == IF path # NONE THEN set_download_dir(path)
             ELSE [download_base |-> download_base, config_file |-> config_file,
                   FirtTime |-> FirtTime, printed |-> << >>, raised |-> "none",
                   log_entries |-> log_entries]
      first == ~set.FirtTime /\ set.config_file = MISSING
  IN IF set.raised # "none" THEN set
     ELSE [set EXCEPT !.printed = IF first THEN @ \o <<BOX_USAGE>> ELSE @]

FormatterIdle ==
  /\ text = << >>
  /\ plain = << >>
  /\ inserted = 0
  /\ max_width = 0
  /\ result = << >>
  /\ again = << >>
  /\ measured = 0
  /\ label = << >>
  /\ index = << >>
  /\ value = << >>
  /\ inner_width = 0
  /\ total_width = 0
  /\ line = << >>

InitDir ==
  /\ FormatterIdle
  /\ ProgramIdle
  /\ pc = "shell"

dirFrame == <<textVars, lineVars, zipVars, argv, stack, http_requests, tiktok_link, response,
              exit_opt, event>>

\* the user creates a directory
MakeDir(p, w) ==
  /\ ~exists(p)
  /\ existing' = existing \cup {p}
  /\ writable' = IF w THEN writable \cup {p} ELSE writable \ {p}
  /\ pc' = "shell"
  /\ UNCHANGED <<config_file, FirtTime, download_base, returned, set_ok, exc, printed,
                 log_entries, dirFrame>>

\* the user removes a directory
RemoveDir(p) ==
  /\ exists(p)
  /\ p # default_download_dir
  /\ existing' = existing \ {p}
  /\ pc' = "shell"
  /\ UNCHANGED <<writable, config_file, FirtTime, download_base, returned, set_ok, exc,
                 printed, log_entries, dirFrame>>

\* the user edits or deletes the config file
EditConfig(c) ==
  /\ c # config_file
  /\ config_file' = c
  /\ set_ok' = NONE
  /\ pc' = "shell"
  /\ UNCHANGED <<existing, writable, FirtTime, download_base, returned, exc, printed,
                 log_entries, dirFrame>>

SetDownloadDir(p) ==
  LET set == set_download_dir(p)
  IN /\ download_base' = set.download_base
     /\ config_file' = set.config_file
     /\ FirtTime' = set.FirtTime
     /\ printed' = set.printed
     /\ exc' = set.raised
     /\ log_entries' = set.log_entries
     /\ set_ok' = IF BOX_DIR_SET \in {set.printed[i] : i \in 1 .. Len(set.printed)}
                    THEN p ELSE set_ok
     /\ pc' = "set_download_dir"
     /\ UNCHANGED <<existing, writable, returned, dirFrame>>

LoadDownloadDir ==
  LET load == load_download_dir
  IN /\ download_base' = load.value
     /\ returned' = load.value
     /\ printed' = load.printed
     /\ exc' = "none"
     /\ pc' = "load_download_dir"
     /\ UNCHANGED <<existing, writable, config_file, FirtTime, set_ok, log_entries, dirFrame>>

MainSetup(a) ==
  LET set == main_setup(a)
  IN /\ argv' = a
     /\ download_base' = set.download_base
     /\ config_file' = set.config_file
     /\ FirtTime' = set.FirtTime
     /\ printed' = set.printed
     /\ exc' = set.raised
     /\ log_entries' = set.log_entries
     /\ set_ok' = IF BOX_DIR_SET \in {set.printed[i] : i \in 1 .. Len(set.printed)}
                    THEN a ELSE set_ok
     /\ pc' = "main_setup"
     /\ UNCHANGED <<existing, writable, returned, textVars, lineVars, zipVars, stack,
                    http_requests, tiktok_link, response, exit_opt, event>>

NextDir ==
  \/ \E p \in Paths, w \in BOOLEAN : MakeDir(p, w)
  \/ \E p \in Paths : RemoveDir(p)
  \/ \E c \in ConfigContents \cup {MISSING} : EditConfig(c)
  \/ \E p \in Paths : SetDownloadDir(p)
  \/ LoadDownloadDir
  \/ \E a \in Paths \cup {NONE} : MainSetup(a)

SpecDir == InitDir /\ [][NextDir]_vars

\* ------------------------------------------------------ the interactive run
\* texts the program compares its input with
TIKTOK_COM == <<116, 105, 107, 116, 111, 107, 46, 99, 111, 109>>
EXIT_WORD == <<101, 120, 105, 116>>
YES == <<121, 101, 115>>
Y == <<121>>
NO == <<110, 111>>
N == <<110>>

\* sub in s
contains(s, sub) ==
  \E i \in 0 .. (Len(s) - Len(sub)) : SubSeq(s, i + 1, i + Len(sub)) = sub

\* lines a user types at the link prompt
Links ==
  { << >>, <<32>>, <<120>>, SubSeq(TIKTOK_COM, 1, 9), TIKTOK_COM,
    <<84, 105, 107, 84, 111, 107, 46, 67, 111, 109>>,
    <<32>> \o TIKTOK_COM \o <<47, 49, 32>>,
    EXIT_WORD, <<69, 120, 105, 116, 32>> }

\* lines a user types at the exit prompt
Answers ==
  { Y, <<89>>, YES, <<32, 89, 101, 83>>, N, <<78>>, NO, <<78, 79, 32>>,
    << >>, <<120>>, <<121, 101>>, <<110, 111, 110>> }

BOX_CTRL_C == "CTRL+C Detected, Do you wanna exit"
BOX_EXIT == "EXIT, THANKS FOR USING THIS TOOL!"
BOX_INVALID_OPTION == "Invalid option"
BOX_VIDEO_NOT_FOUND == "Video not found"
BOX_LINK_EMPTY == "TikTok link is empty"
BOX_INVALID_LINK == "Invalid TikTok link"
BOX_REQUEST_ERROR == "Error occurred during the request"
BOX_UNEXPECTED == "An unexpected error occurred"
BOX_NUMERIC_ONLY == "Please use only numeric values"
BOX_INVALID_CHOICE == "Invalid option. Please choose from the menu."

\* get_tiktok_links, the checks before the request, with the empty check only
link_check_empty_only(link) ==
  IF link = << >> THEN BOX_LINK_EMPTY ELSE "ok"

\* get_tiktok_links, the checks before the request: the box printed, or "ok"
link_check(link) ==
  IF link = << >> THEN BOX_LINK_EMPTY
  ELSE IF ~contains(lower(link), TIKTOK_COM) THEN BOX_INVALID_LINK
  ELSE "ok"

\* ask_exit comparing the answer as typed
ask_exit_as_typed(opt) ==
  IF opt \in {YES, Y} THEN "Exit"
  ELSE IF opt \in {NO, N} THEN "return"
  ELSE "invalid"

\* ask_exit, the branch taken for the stripped answer
ask_exit(opt) ==
  IF lower(opt) \in {YES, Y} THEN "Exit"
  ELSE IF lower(opt) \in {NO, N} THEN "return"
  ELSE "invalid"

\* API responses, by the fields get_tiktok_links reads before it opens a menu
Responses ==
  [ data : BOOLEAN,                                \* 'data' is a non-empty dict
    success : BOOLEAN,                             \* 'success' is true
    title : {"missing", "blank", "null", "text"},  \* data['title']
    audio : {"missing", "null", "dict"},           \* data['audio']
    media : {"none", "video", "images"} ]          \* a video dict / an images list

\* get_tiktok_links from the response to the menu: what the response leads to
api_result(r) ==
  IF ~r.data \/ ~r.success THEN "invalid_link"
  ELSE IF r.title = "null" THEN "AttributeError"
  ELSE IF r.title \in {"missing", "blank"} THEN "invalid_link"
  ELSE IF r.audio = "null" THEN "AttributeError"
  ELSE IF r.media = "none" THEN "invalid_link"
  ELSE IF r.media = "images" THEN "download_img"
  ELSE "download_vid"

\* a bare except: every exception class is caught
IsException_bare(e) == TRUE

\* isinstance(e, Exception): KeyboardInterrupt and SystemExit derive from
\* BaseException only
IsException(e) == e \notin {"KeyboardInterrupt", "SystemExit"}

\* the except clauses guarding a site
Handles(site, e) ==
  CASE site = "__main__.try" -> e = "KeyboardInterrupt"
    [] site = "ask_exit.try" -> e = "KeyboardInterrupt"
    [] site = "get_tiktok_links.try" -> IsException(e)
    [] site = "download_vid.try" -> e = "PermissionError"
    [] site = "download_img.try" -> IsException(e)
    [] OTHER -> FALSE

\* an exception of class e raised at site with callers stk: the handlers
\* run and the place where the program waits next, or its end
RECURSIVE Raise(_, _, _, _, _)
Raise(e, site, stk, out, logs) ==
  IF Handles(site, e)
    THEN CASE site = "__main__.try" ->
                [pc |-> "ask_exit", stack |-> <<"__main__.except">>,
                 printed |-> out \o <<BOX_CTRL_C>>, log_entries |-> logs, exc |-> "none"]
           [] site = "ask_exit.try" ->
                Raise("SystemExit", "ask_exit.except", stk, out \o <<BOX_EXIT>>, logs)
           [] site = "get_tiktok_links.try" ->
                IF e = "PermissionError"
                  THEN LET logged == log_error(logs)
                       IN IF logged.raised # "none"
                            THEN Raise(logged.raised, "get_tiktok_links.except", stk, out,
                                       logged.log_entries)
                            ELSE Raise("SystemExit", "get_tiktok_links.except", stk,
                                       out \o <<BOX_PERMISSION>>, logged.log_entries)
                  ELSE IF e = "RequestException"
                    THEN Raise("SystemExit", "get_tiktok_links.except", stk,
                               out \o <<BOX_REQUEST_ERROR>>, logs)
                    ELSE Raise("SystemExit", "get_tiktok_links.except", stk,
                               out \o <<BOX_UNEXPECTED>>, logs)
           [] site = "download_vid.try" ->
                LET logged == log_error(logs)
                IN IF logged.raised # "none"
                     THEN Raise(logged.raised, "download_vid.except", stk, out,
                                logged.log_entries)
                     ELSE [pc |-> "download_vid", stack |-> stk,
                           printed |-> out \o <<BOX_PERMISSION>>,
                           log_entries |-> logged.log_entries, exc |-> "none"]
           [] site = "download_img.try" ->
                [pc |-> "download_img", stack |-> stk,
                 printed |-> out \o <<BOX_NUMERIC_ONLY>>, log_entries |-> logs,
                 exc |-> "none"]
    ELSE IF stk = << >>
      THEN [pc |-> "exited", stack |-> << >>, printed |-> out, log_entries |-> logs,
            exc |-> e]
      ELSE Raise(e, stk[Len(stk)], SubSeq(stk, 1, Len(stk) - 1), out, logs)

\* Exit() called at site
Exit(site, stk, out, logs) ==
  Raise("SystemExit", site, stk, out \o <<BOX_EXIT>>, logs)

\* invalid_link() called in get_tiktok_links
invalid_link(stk, out, logs) ==
  Raise("SystemExit", "get_tiktok_links.try", stk, out \o <<BOX_VIDEO_NOT_FOUND>>, logs)

MaxRequests == 2
MaxDepth == 3

\* call sites at which main() was called
MainCalls == {"__main__.try", "download_vid.loop", "download_img.loop"}

\* number of main() activations among the active calls
Depth(stk) == Cardinality({i \in 1 .. Len(stk) : stk[i] \in MainCalls})

\* statements the program can be executing while it waits at pc
SitesAt(at) ==
  CASE at = "home_menu" -> {"home_menu.loop"}
    [] at = "pause_return" -> {"pause_return.input"}
    [] at = "main" -> {"main.loop"}
    [] at = "get_tiktok_links" -> {"get_tiktok_links.try"}
    [] at = "download_vid" -> {"download_vid.loop", "download_vid.try"}
    [] at = "download_img" -> {"download_img.loop", "download_img.try"}
    [] at = "ask_exit" -> {"ask_exit.try", "ask_exit.body"}
    [] OTHER -> {}

Sites ==
  UNION {SitesAt(at) : at \in {"home_menu", "pause_return", "main", "get_tiktok_links",
                               "download_vid", "download_img", "ask_exit"}}

\* the program started and shows the home menu
InitMain ==
  /\ FormatterIdle
  /\ existing = {default_download_dir, DirA}
  /\ writable \in {{default_download_dir}, {default_download_dir, DirA}}
  /\ config_file = MISSING
  /\ FirtTime = FALSE
  /\ download_base = default_download_dir
  /\ returned = NONE
  /\ set_ok = NONE
  /\ argv \in {NONE, DirA, DirASpace}
  /\ stack = <<"__main__.try", "main.home_menu">>
  /\ exc = "none"
  /\ printed = << >>
  /\ http_requests = 0
  /\ log_entries = 0
  /\ tiktok_link = << >>
  /\ response = PENDING
  /\ exit_opt = << >>
  /\ event = <<"start", "">>
  /\ ZipIdle
  /\ pc = "home_menu"

\* the step ends where the handlers left the program
Land(r) ==
  /\ pc' = r.pc
  /\ stack' = r.stack
  /\ printed' = r.printed
  /\ log_entries' = r.log_entries
  /\ exc' = r.exc

\* the step ends waiting in function at, no exception raised
Wait(at, stk, out) ==
  Land([pc |-> at, stack |-> stk, printed |-> out, log_entries |-> log_entries,
        exc |-> "none"])

mainFrame == <<textVars, lineVars, zipVars, existing, writable, argv>>

\* the user answers the home menu
HomeChoice(choice) ==
  /\ pc = "home_menu"
  /\ event' = <<"choice", choice>>
  /\ LET callers == SubSeq(stack, 1, Len(stack) - 1)
         set == main_setup(argv)
     IN CASE choice = "download" ->
               /\ download_base' = set.download_base
               /\ config_file' = set.config_file
               /\ FirtTime' = set.FirtTime
               /\ set_ok' = IF set.printed # << >> /\ set.printed[1] = BOX_DIR_SET
                              THEN argv ELSE set_ok
               /\ IF set.raised # "none"
                    THEN Land(Raise(set.raised, "main.body", callers, set.printed,
                                    set.log_entries))
                    ELSE Wait("main", callers, set.printed)
          [] choice = "info" ->
               /\ Wait("pause_return", stack \o <<"home_menu.loop">>, << >>)
               /\ UNCHANGED <<download_base, config_file, FirtTime, set_ok>>
          [] choice = "Exit" ->
               /\ Land(Exit("home_menu.loop", stack, << >>, log_entries))
               /\ UNCHANGED <<download_base, config_file, FirtTime, set_ok>>
          [] OTHER ->
               /\ Wait("home_menu", stack, <<BOX_INVALID_CHOICE>>)
               /\ UNCHANGED <<download_base, config_file, FirtTime, set_ok>>
  /\ UNCHANGED <<returned, http_requests, tiktok_link, response, exit_opt, mainFrame>>

\* the user presses Enter after an information box
PauseReturn ==
  /\ pc = "pause_return"
  /\ event' = <<"enter", "">>
  /\ Wait("home_menu", SubSeq(stack, 1, Len(stack) - 1), << >>)
  /\ UNCHANGED <<config_file, FirtTime, download_base, returned, set_ok, http_requests,
                 tiktok_link, response, exit_opt, mainFrame>>

\* the user types a line at the link prompt
EnterLink(typed) ==
  LET link == strip(typed)
  IN /\ pc = "main"
     /\ (lower(link) # EXIT_WORD /\ link_check(link) = "ok") => http_requests < MaxRequests
     /\ tiktok_link' = link
     /\ event' = <<"link", "">>
     /\ IF lower(link) = EXIT_WORD
          THEN /\ Land(Exit("main.loop", stack, << >>, log_entries))
               /\ UNCHANGED <<http_requests, response>>
          ELSE IF link_check(link) # "ok"
            THEN /\ Wait("main", stack, <<link_check(link)>>)
                 /\ UNCHANGED <<http_requests, response>>
            ELSE /\ Wait("get_tiktok_links", stack \o <<"main.loop">>, << >>)
                 /\ http_requests' = http_requests + 1
                 /\ response' = PENDING
     /\ UNCHANGED <<config_file, FirtTime, download_base, returned, set_ok, exit_opt,
                    mainFrame>>

\* the API answers the request
Respond(r) ==
  /\ pc = "get_tiktok_links"
  /\ response = PENDING
  /\ response' = r
  /\ event' = <<"response", api_result(r)>>
  /\ CASE api_result(r) = "invalid_link" ->
            /\ Land(invalid_link(stack, << >>, log_entries))
            /\ UNCHANGED <<download_base, returned>>
       [] api_result(r) = "AttributeError" ->
            /\ Land(Raise("AttributeError", "get_tiktok_links.try", stack, << >>,
                          log_entries))
            /\ UNCHANGED <<download_base, returned>>
       [] OTHER ->
            /\ Wait(api_result(r), stack \o <<"get_tiktok_links.try">>,
                    load_download_dir.printed)
            /\ download_base' = load_download_dir.value
            /\ returned' = load_download_dir.value
  /\ UNCHANGED <<config_file, FirtTime, set_ok, http_requests, tiktok_link, exit_opt,
                 mainFrame>>

\* the request fails
RequestFails ==
  /\ pc = "get_tiktok_links"
  /\ response = PENDING
  /\ event' = <<"request", "RequestException">>
  /\ Land(Raise("RequestException", "get_tiktok_links.try", stack, << >>, log_entries))
  /\ UNCHANGED <<config_file, FirtTime, download_base, returned, set_ok, http_requests,
                 tiktok_link, response, exit_opt, mainFrame>>

\* Go Back starting main() afresh in place of the menu that was left
go_back_restart(site, stk) == <<"__main__.try", "main.home_menu">>

\* Go Back: main() is called at site inside the menu loop and shows the home
\* menu; the calls that were active stay active below it
go_back(site, stk) == stk \o <<site, "main.home_menu">>

menuFrame == <<config_file, FirtTime, download_base, returned, set_ok, http_requests,
               tiktok_link, response, exit_opt, mainFrame>>

\* what a download started from a menu can end with
Outcomes == {"saved", "PermissionError", "RequestException"}

\* the user answers download_vid's menu
VidOption(option, outcome) ==
  /\ pc = "download_vid"
  /\ event' = <<option, outcome>>
  /\ CASE option = "video" ->
            IF outcome = "saved" THEN Wait("download_vid", stack, << >>)
            ELSE Land(Raise(outcome,
                            IF outcome = "PermissionError" THEN "download_vid.try"
                            ELSE "download_vid.loop",
                            stack, << >>, log_entries))
       [] option = "extra" ->
            IF outcome = "saved" THEN Wait("download_vid", stack, << >>)
            ELSE Land(Raise(outcome, "download_vid.loop", stack, << >>, log_entries))
       [] option = "Go Back" ->
            /\ outcome = "saved"
            /\ Depth(stack) < MaxDepth
            /\ Wait("home_menu", go_back("download_vid.loop", stack), << >>)
       [] OTHER ->
            /\ outcome = "saved"
            /\ Wait("download_vid", stack, << >>)
  /\ UNCHANGED menuFrame

\* the user answers download_img's menu
ImgOption(option, outcome) ==
  /\ pc = "download_img"
  /\ event' = <<option, outcome>>
  /\ CASE option = "specific" ->
            IF outcome = "saved" THEN Wait("download_img", stack, << >>)
            ELSE Land(Raise(outcome, "download_img.try", stack, << >>, log_entries))
       [] option = "extra" ->
            IF outcome = "saved" THEN Wait("download_img", stack, << >>)
            ELSE Land(Raise(outcome, "download_img.loop", stack, << >>, log_entries))
       [] option = "Go Back" ->
            /\ outcome = "saved"
            /\ Depth(stack) < MaxDepth
            /\ Wait("home_menu", go_back("download_img.loop", stack), << >>)
       [] OTHER ->
            /\ outcome = "saved"
            /\ Wait("download_img", stack, << >>)
  /\ UNCHANGED menuFrame

\* SIGINT arrives: exit_on_signal_SIGINT raises KeyboardInterrupt in the
\* statement being executed
Sigint(site) ==
  /\ site \in SitesAt(pc)
  /\ event' = <<"SIGINT", site>>
  /\ Land(Raise("KeyboardInterrupt", site, stack, << >>, log_entries))
  /\ UNCHANGED menuFrame

\* the user answers the exit prompt
AskExit(typed) ==
  /\ pc = "ask_exit"
  /\ exit_opt' = strip(typed)
  /\ event' = <<"answer", ask_exit(strip(typed))>>
  /\ CASE ask_exit(strip(typed)) = "Exit" ->
            Land(Exit("ask_exit.body", stack, << >>, log_entries))
       [] ask_exit(strip(typed)) = "return" ->
            Wait("home_menu", <<"__main__.try", "main.home_menu">>, << >>)
       [] OTHER ->
            Land(Exit("ask_exit.body", stack, <<BOX_INVALID_OPTION>>, log_entries))
  /\ UNCHANGED <<config_file, FirtTime, download_base, returned, set_ok, http_requests,
                 tiktok_link, response, mainFrame>>

NextMain ==
  \/ \E choice \in {"download", "info", "Exit", "invalid"} : HomeChoice(choice)
  \/ PauseReturn
  \/ \E typed \in Links : EnterLink(typed)
  \/ \E r \in Responses : Respond(r)
  \/ RequestFails
  \/ \E option \in {"video", "extra", "Go Back", "other"}, outcome \in Outcomes :
       VidOption(option, outcome)
  \/ \E option \in {"specific", "extra", "Go Back", "other"}, outcome \in Outcomes :
       ImgOption(option, outcome)
  \/ \E site \in Sites : Sigint(site)
  \/ \E typed \in Answers : AskExit(typed)

SpecMain == InitMain /\ [][NextMain]_vars

\* ------------------------------------------------------------ download_zip
MaxTitleLen == 3
MaxLinks == 2

SLASH == 47
DOTDOT == <<DOT, DOT>>
IMGES == <<95, 105, 109, 103, 101, 115, 95>>
JPG == <<46, 106, 112, 103>>
IMAGES_ZIP == <<95, 105, 109, 97, 103, 101, 115, 46, 122, 105, 112>>

\* characters of a title: a letter and the two characters paths give a meaning
TitleAlphabet == {116, SLASH, DOT}
Urls == {"url_a", "url_b"}

\* str(n) for a natural number
RECURSIVE decimal(_)
decimal(n) == IF n < 10 THEN <<48 + n>> ELSE decimal(n \div 10) \o <<48 + (n % 10)>>

\* f"{title}_imges_{i}.jpg"
img_name(title, i) == title \o IMGES \o decimal(i) \o JPG

\* os.path.join(a, b)
path_join(a, b) ==
  IF b # << >> /\ b[1] = SLASH THEN b
  ELSE IF a = << >> \/ a[Len(a)] = SLASH THEN a \o b
  ELSE a \o <<SLASH>> \o b

\* path.split('/') from position i on, cur being the component read so far
RECURSIVE SplitFrom(_, _, _)
SplitFrom(s, i, cur) ==
  IF i > Len(s) THEN <<cur>>
  ELSE IF s[i] = SLASH THEN <<cur>> \o SplitFrom(s, i + 1, << >>)
  ELSE SplitFrom(s, i + 1, Append(cur, s[i]))

split(s) == SplitFrom(s, 1, << >>)

\* '/'.join(comps)
RECURSIVE slash_join(_)
slash_join(comps) ==
  IF comps = << >> THEN << >>
  ELSE IF Len(comps) = 1 THEN comps[1]
  ELSE comps[1] \o <<SLASH>> \o slash_join(Tail(comps))

\* the loop of os.path.normpath over the components from k on
RECURSIVE NormFrom(_, _, _, _)
NormFrom(comps, k, new_comps, initial_slashes) ==
  IF k > Len(comps) THEN new_comps
  ELSE LET comp == comps[k]
       IN IF comp = << >> \/ comp = <<DOT>>
            THEN NormFrom(comps, k + 1, new_comps, initial_slashes)
          ELSE IF \/ comp # DOTDOT
                  \/ (~initial_slashes /\ new_comps = << >>)
                  \/ (new_comps # << >> /\ new_comps[Len(new_comps)] = DOTDOT)
            THEN NormFrom(comps, k + 1, Append(new_comps, comp), initial_slashes)
          ELSE IF new_comps # << >>
            THEN NormFrom(comps, k + 1, SubSeq(new_comps, 1, Len(new_comps) - 1),
                          initial_slashes)
          ELSE NormFrom(comps, k + 1, new_comps, initial_slashes)

\* the entry name ZipFile.write(filename, arcname) stores: arcname passed
\* through os.path.normpath, leading separators removed
arcname(name) ==
  LET kept == NormFrom(split(name), 1, << >>, name # << >> /\ name[1] = SLASH)
  IN IF kept = << >> THEN <<DOT>> ELSE slash_join(kept)

\* the directory the components before the last lead to, from the root,
\* and whether every one of them is an existing directory
RECURSIVE Walk(_, _, _)
Walk(comps, k, cur) ==
  IF k >= Len(comps) THEN [found |-> TRUE, dir |-> cur]
  ELSE LET comp == comps[k]
       IN IF comp = << >> \/ comp = <<DOT>> THEN Walk(comps, k + 1, cur)
          ELSE IF comp = DOTDOT
            THEN Walk(comps, k + 1,
                      IF cur = << >> THEN cur ELSE SubSeq(cur, 1, Len(cur) - 1))
          ELSE IF Append(cur, comp) \in dirs THEN Walk(comps, k + 1, Append(cur, comp))
          ELSE [found |-> FALSE, dir |-> cur]

\* the file an absolute path names: whether its directory exists, and the
\* components of the file
locate(path) ==
  LET comps == split(path)
      parent == Walk(comps, 1, << >>)
  IN [found |-> parent.found, file |-> Append(parent.dir, comps[Len(comps)])]

\* the components of the download directory
download_dir == NormFrom(split(default_download_dir), 1, << >>, TRUE)

zip_name == path_join(default_download_dir, zip_title \o IMAGES_ZIP)
img_path(i) == path_join(default_download_dir, img_name(zip_title, i))

\* the caller is about to call download_zip
InitZip ==
  /\ FormatterIdle
  /\ RunIdle
  /\ zip_title = << >>
  /\ links = << >>
  /\ dirs = {<< >>, download_dir}
  /\ files = {}
  /\ zipf = << >>
  /\ img_i = 0
  /\ pc = "caller"

zipFrame == <<textVars, lineVars, dirVars, argv, stack, http_requests, log_entries,
              tiktok_link, response, exit_opt, event>>

\* the title the API returned grows by one character
TypeTitle(ch) ==
  /\ pc = "caller"
  /\ Len(zip_title) < MaxTitleLen
  /\ zip_title' = Append(zip_title, ch)
  /\ UNCHANGED <<links, dirs, files, zipf, img_i, exc, printed, pc, zipFrame>>

\* the post has one more image
AddLink(url) ==
  /\ pc = "caller"
  /\ Len(links) < MaxLinks
  /\ links' = Append(links, url)
  /\ UNCHANGED <<zip_title, dirs, files, zipf, img_i, exc, printed, pc, zipFrame>>

\* the download directory has a subdirectory
MakeSubdir(name) ==
  /\ pc = "caller"
  /\ dirs' = dirs \cup {Append(download_dir, name)}
  /\ dirs' # dirs
  /\ UNCHANGED <<zip_title, links, files, zipf, img_i, exc, printed, pc, zipFrame>>

\* download_zip up to the with statement: the archive is created
OpenZip ==
  /\ pc = "caller"
  /\ img_i' = 0
  /\ zipf' = << >>
  /\ printed' = <<"Downloading all images into ZIP File">>
  /\ IF locate(zip_name).found
       THEN /\ files' = files \cup {locate(zip_name).file}
            /\ exc' = "none"
            /\ pc' = "zip_loop"
       ELSE /\ files' = files
            /\ exc' = "FileNotFoundError"
            /\ pc' = "zip_raised"
  /\ UNCHANGED <<zip_title, links, dirs, zipFrame>>

\* one image is requested and written to its file
SaveImage ==
  /\ pc = "zip_loop"
  /\ img_i < Len(links)
  /\ img_i' = img_i + 1
  /\ IF locate(img_path(img_i + 1)).found
       THEN /\ files' = files \cup {locate(img_path(img_i + 1)).file}
            /\ exc' = "none"
            /\ pc' = "zip_saved"
       ELSE /\ files' = files
            /\ exc' = "FileNotFoundError"
            /\ pc' = "zip_raised"
  /\ UNCHANGED <<zip_title, links, dirs, zipf, printed, zipFrame>>

\* the request for an image fails
ImageFails ==
  /\ pc = "zip_loop"
  /\ img_i < Len(links)
  /\ img_i' = img_i + 1
  /\ exc' = "RequestException"
  /\ pc' = "zip_raised"
  /\ UNCHANGED <<zip_title, links, dirs, files, zipf, printed, zipFrame>>

\* zipf.write(img_path, img_name)
AddToZip ==
  /\ pc = "zip_saved"
  /\ zipf' = Append(zipf, arcname(img_name(zip_title, img_i)))
  /\ pc' = "zip_added"
  /\ UNCHANGED <<zip_title, links, dirs, files, img_i, exc, printed, zipFrame>>

\* os.remove(img_path)
RemoveImage ==
  /\ pc = "zip_added"
  /\ files' = files \ {locate(img_path(img_i)).file}
  /\ pc' = "zip_loop"
  /\ UNCHANGED <<zip_title, links, dirs, zipf, img_i, exc, printed, zipFrame>>

\* the loop is over: the archive is closed and download_zip returns
CloseZip ==
  /\ pc = "zip_loop"
  /\ img_i = Len(links)
  /\ printed' = <<"Downloading Complete">>
  /\ pc' = "zip_returned"
  /\ UNCHANGED <<zip_title, links, dirs, files, zipf, img_i, exc, zipFrame>>

NextZip ==
  \/ \E ch \in TitleAlphabet : TypeTitle(ch)
  \/ \E url \in Urls : AddLink(url)
  \/ \E ch \in TitleAlphabet \ {SLASH, DOT} : MakeSubdir(<<ch>>)
  \/ OpenZip
  \/ SaveImage
  \/ ImageFails
  \/ AddToZip
  \/ RemoveImage
  \/ CloseZip

SpecZip == InitZip /\ [][NextZip]_vars

TypeOK ==
  /\ pc \in {"input", "truncated", "retruncated", "measured", "compose", "kv", "menu", "header",
            "raw", "stripped", "restripped",
            "shell", "set_download_dir", "load_download_dir", "main_setup",
            "home_menu", "pause_return", "main", "get_tiktok_links", "download_vid",
            "download_img", "ask_exit", "exited",
            "caller", "zip_loop", "zip_saved", "zip_added", "zip_returned", "zip_raised"}
  /\ Len(zip_title) <= MaxTitleLen
  /\ Len(links) <= MaxLinks
  /\ img_i <= Len(links)
  /\ http_requests <= MaxRequests
  /\ Depth(stack) <= MaxDepth
  /\ Len(plain) <= MaxLen
  /\ inserted <= MaxAnsi
  /\ (value = NONE \/ Len(value) <= MaxValueLen)
\* ------------------------------------------------------- claim vocabulary
IsPrefix(p, t) == Len(p) <= Len(t) /\ SubSeq(t, 1, Len(p)) = p

EndsWith(t, suffix) ==
  Len(t) >= Len(suffix) /\ SubSeq(t, Len(t) - Len(suffix) + 1, Len(t)) = suffix

Contains(t, part) ==
  \E i \in 0 .. (Len(t) - Len(part)) : SubSeq(t, i + 1, i + Len(part)) = part

HasChar(t, chars) == \E i \in 1 .. Len(t) : t[i] \in chars

\* the width class of a character: 0 combining, 2 Wide/Fullwidth, 1 otherwise
ClassWidth(ch) ==
  IF combining(ch) # 0 THEN 0
  ELSE IF east_asian_width(ch) \in {"W", "F"} THEN 2 ELSE 1

RECURSIVE ClassSum(_)
ClassSum(t) == IF t = << >> THEN 0 ELSE ClassWidth(Head(t)) + ClassSum(Tail(t))

RECURSIVE CharWidthSum(_)
CharWidthSum(t) == IF t = << >> THEN 0 ELSE char_width(Head(t)) + CharWidthSum(Tail(t))

\* every ESC of t starts a complete colour sequence
EscComplete(t) == \A i \in 1 .. Len(t) : t[i] = ESC => ANSI_RE(t, i) # 0

\* the longest prefix p of t with display_width(p) + 3 <= w
LongestEllipsisPrefix(t, w) ==
  LET fits(n) == display_width(SubSeq(t, 1, n)) + 3 <= w
      n == CHOOSE k \in 0 .. Len(t) :
             fits(k) /\ \A m \in (k + 1) .. Len(t) : ~fits(m)
  IN  SubSeq(t, 1, n)

\* ------------------------------------------------------------------ claims
\* C1: a text whose display width is within the budget is returned unchanged
\* by truncate_to_width (colour codes, combining marks and wide characters
\* included).
C1_FitsUnchanged ==
  (pc = "truncated" /\ max_width >= display_width(text)) => result = text

\* C3: for 3 <= w < display_width(t) the result of truncate_to_width(t, w) is
\* at most w columns wide and ends with "...".
C3_TruncatedFitsWithEllipsis ==
  (pc = "truncated" /\ 3 <= max_width /\ max_width < display_width(text))
    => (display_width(result) <= max_width /\ EndsWith(result, ELLIPSIS))

C3_Witness ==
  /\ pc = "truncated"
  /\ 3 <= max_width
  /\ max_width < display_width(text)
  /\ inserted > 0
  /\ HasChar(text, WideChars)
  /\ HasChar(text, CombiningChars)
  /\ Len(result) > 3

\* C4: truncate_to_width is idempotent: truncating its result again to the
\* same budget returns that result.
C4_Idempotent == pc = "retruncated" => again = result

\* C5: display_width(t) is the sum of the width classes (0 combining, 2 wide,
\* 1 otherwise) of the visible characters of t; colour codes inserted between
\* the characters leave it unchanged, and it is never negative.
C5_DisplayWidthIsClassSum ==
  pc = "measured" =>
    /\ measured = ClassSum(plain)
    /\ measured = display_width(plain)
    /\ measured >= 0

C5_Witness ==
  /\ pc = "measured"
  /\ inserted > 0
  /\ text # plain
  /\ HasChar(plain, WideChars)
  /\ HasChar(plain, CombiningChars)
  /\ HasChar(plain, NarrowChars)
  /\ measured = 3

\* C6: char_width is 0 for a combining mark, 2 for a Wide/Fullwidth character
\* and 1 otherwise, so its sum over an escape-free text is display_width.
C6_CharWidthIsClassWidth ==
  (pc = "measured" /\ inserted = 0) =>
    /\ \A i \in 1 .. Len(text) : char_width(text[i]) = ClassWidth(text[i])
    /\ CharWidthSum(text) = measured

\* C7: colour codes take no truncation budget and are kept whole: stripping
\* the result equals truncating the stripped text, and every ESC of the
\* result starts a complete sequence.
C7_AnsiFreeOfCharge ==
  pc = "truncated" =>
    /\ strip_ansi(result) = truncate_to_width(strip_ansi(text), max_width)
    /\ EscComplete(result)

\* C8: for 0 < w < 3 and display_width(t) > w the result is a prefix of t, no
\* ellipsis appended, at most w columns wide (a wide character crossing the
\* budget is left out).
C8_SmallBudgetPrefix ==
  (pc = "truncated" /\ 0 < max_width /\ max_width < 3
     /\ display_width(text) > max_width)
    => (IsPrefix(result, text) /\ display_width(result) <= max_width)

\* C9: when t does not fit in w >= 3 the result is p + "..." with p the
\* longest prefix of t such that display_width(p) + 3 <= w.
C9_LongestPrefixPlusEllipsis ==
  (pc = "truncated" /\ max_width >= 3 /\ display_width(text) > max_width)
    => result = LongestEllipsisPrefix(text, max_width) \o ELLIPSIS
\* C2: when the prefix built from the label is at most inner_width wide, the
\* line format_kv_line returns is exactly inner_width + 2 columns wide.
C2_KvLineWidth ==
  (pc = "kv" /\ display_width(kv_prefix(label)) <= inner_width)
    => display_width(line) = inner_width + 2

\* C10: when the menu text fits in the budget left by the prefix, the line
\* format_menu_line returns holds index and text verbatim (text followed at
\* once by the closing colour, no ellipsis) and is inner_width + 2 columns wide.
C10_MenuLineVerbatim ==
  (pc = "menu" /\ value # NONE
     /\ display_width(value) <= inner_width - display_width(menu_prefix(index)))
    => /\ Contains(line, index)
       /\ Contains(line, value)
       /\ Contains(line, menu_prefix(index) \o value \o BLUE)
       /\ display_width(line) = inner_width + 2
\* number of dashes in a row from index i of t on, and up to index i
DashesFrom(t, i) ==
  CHOOSE n \in 0 .. Len(t) :
    /\ \A k \in 0 .. (n - 1) : i + k <= Len(t) /\ t[i + k] = DASH
    /\ ~(i + n <= Len(t) /\ t[i + n] = DASH)

DashesUpTo(t, i) ==
  CHOOSE n \in 0 .. Len(t) :
    /\ \A k \in 0 .. (n - 1) : i - k >= 1 /\ t[i - k] = DASH
    /\ ~(i - n >= 1 /\ t[i - n] = DASH)

\* C11: with d = (total_width - 2) - (display_width(title) + 6) >= 0,
\* box_header puts floor(d/2) dashes left of " < title > " and d - floor(d/2)
\* right of it (the odd dash goes right), and the line is total_width wide.
C11_HeaderDashSplit ==
  LET d == (total_width - 2) - (ClassSum(value) + 6)
      visible == strip_ansi(line)
      left == DashesFrom(visible, 2)
      right == DashesUpTo(visible, Len(visible) - 1)
  IN  (pc = "header" /\ d >= 0) =>
        /\ left = d \div 2
        /\ right = d - (d \div 2)
        /\ right - left \in {0, 1}
        /\ visible = <<CORNER_L>> \o Dashes(left)
                       \o <<SPACE, LESS, SPACE>> \o value \o <<SPACE, GREATER, SPACE>>
                       \o Dashes(right) \o <<CORNER_R>>
        /\ display_width(line) = total_width

C11_Witness ==
  /\ pc = "header"
  /\ HasChar(value, WideChars)
  /\ (total_width - 2) - (ClassSum(value) + 6) = 3
  /\ DashesFrom(strip_ansi(line), 2) = 1

\* C12: when the prefix leaves no budget (remaining <= 0), format_kv_line and
\* format_menu_line return left border + prefix + right border: the content is
\* cut to the empty text and no padding is emitted.  Every call, also with an
\* empty or None value or inner_width <= 0, returns a bordered line.
C12_NoBudgetDegenerates ==
  LET prefix == IF pc = "kv" THEN kv_prefix(label) ELSE menu_prefix(index)
      remaining == inner_width - display_width(prefix)
  IN  pc \in {"kv", "menu"} =>
        /\ IsPrefix(BLUE \o <<BORDER>> \o prefix, line)
        /\ EndsWith(line, BLUE \o <<BORDER>>)
        /\ remaining <= 0 =>
             line = BLUE \o <<BORDER>> \o prefix \o BLUE \o BLUE \o <<BORDER>>
        /\ (pc = "kv" /\ value = NONE) => line = format_kv_line(label, << >>, inner_width)

C12_Witness ==
  /\ pc = "kv"
  /\ inner_width > 0
  /\ inner_width < display_width(kv_prefix(label))
  /\ value # NONE
  /\ Len(value) > 1
\* a substring ESC '[' (digits or semicolons)* 'm' starts at index i of t
SequenceAt(t, i) ==
  /\ i + 2 <= Len(t)
  /\ t[i] = ESC
  /\ t[i + 1] = LBRACKET
  /\ \E j \in (i + 2) .. Len(t) :
       t[j] = LOWER_M /\ \A k \in (i + 2) .. (j - 1) : IsParam(t[k])

HasSequence(t) == \E i \in 1 .. Len(t) : SequenceAt(t, i)

\* every ESC of t starts a complete sequence
EveryEscStartsSequence(t) == \A i \in 1 .. Len(t) : t[i] = ESC => SequenceAt(t, i)

\* C13 as stated: strip_ansi(text) holds no escape sequence for every text (so
\* strip_ansi is idempotent), and a text without sequences is returned unchanged.
C13_StrippedHasNoSequence ==
  /\ pc = "stripped" =>
       /\ ~HasSequence(result)
       /\ ~HasSequence(text) => result = text
  /\ pc = "restripped" => again = result

\* C13 amended: the same for every text in which every ESC starts a complete
\* sequence; a text without sequences is returned unchanged.
C13_StrippedHasNoSequenceWellFormed ==
  /\ pc = "stripped" =>
       /\ EveryEscStartsSequence(text) => ~HasSequence(result)
       /\ ~HasSequence(text) => result = text
  /\ (pc = "restripped" /\ EveryEscStartsSequence(text)) => again = result

C13_Witness ==
  /\ pc = "restripped"
  /\ EveryEscStartsSequence(text)
  /\ HasSequence(text)
  /\ Len(result) > 1
  /\ Len(result) < Len(text)
\* C14: truncate_to_width returns the empty text for every text when the
\* budget is <= 0, and for the empty text at every budget.
C14_EmptyAtZeroBudget ==
  (pc = "truncated" /\ (max_width <= 0 \/ text = << >>)) => result = << >>

C14_Witness ==
  /\ pc = "truncated"
  /\ max_width = 0
  /\ inserted > 0
  /\ HasChar(text, CombiningChars)
  /\ HasChar(text, WideChars)

C20_SetThenLoadRoundTrip ==
  /\ (pc \in {"set_download_dir", "main_setup"} /\ printed = <<BOX_DIR_SET>>) =>
       (config_file = set_ok /\ FirtTime)
  /\ (pc = "load_download_dir" /\ set_ok # NONE /\ exists(set_ok)) => returned = set_ok
  /\ (pc = "main_setup" /\ set_ok # NONE) =>
       \A i \in 1 .. Len(printed) : printed[i] # BOX_USAGE

\* C15: a SIGINT arriving while main() runs brings up the exit prompt; the
\* answer y or yes in any case ends the program through Exit(), n or no
\* starts main() again at the home menu, any other answer prints "Invalid
\* option" and ends the program, and a SIGINT during the prompt ends it too.
C15_SigintAsksBeforeExit ==
  [][ /\ (event'[1] = "SIGINT" /\ pc \notin {"ask_exit", "exited"}) =>
           (pc' = "ask_exit" /\ printed' = <<BOX_CTRL_C>> /\ exc' = "none")
      /\ (event'[1] = "SIGINT" /\ pc = "ask_exit") => pc' = "exited"
      /\ (event'[1] = "answer" /\ pc = "ask_exit") =>
           IF lower(exit_opt') \in {Y, YES}
             THEN pc' = "exited" /\ exc' = "SystemExit" /\ printed' = <<BOX_EXIT>>
             ELSE IF lower(exit_opt') \in {N, NO}
               THEN /\ pc' = "home_menu"
                    /\ stack' = <<"__main__.try", "main.home_menu">>
                    /\ exc' = "none"
               ELSE /\ pc' = "exited"
                    /\ exc' = "SystemExit"
                    /\ printed' = <<BOX_INVALID_OPTION, BOX_EXIT>> ]_vars

C15_Witness ==
  /\ pc = "home_menu"
  /\ event = <<"answer", "return">>
  /\ exit_opt = <<78, 79>>
  /\ http_requests > 0

\* response premises of C16
NoDataOrFailure(r) == ~r.data \/ ~r.success
EmptyTitle(r) == r.title \in {"missing", "blank"}
NoMedia(r) == r.media = "none"

C17_BadLinkReturnsToPrompt ==
  [][ (/\ pc = "main"
       /\ event'[1] = "link"
       /\ lower(tiktok_link') # EXIT_WORD
       /\ (tiktok_link' = << >> \/ ~contains(lower(tiktok_link'), TIKTOK_COM))) =>
        /\ pc' = "main"
        /\ stack' = stack
        /\ exc' = "none"
        /\ http_requests' = http_requests
        /\ printed' = IF tiktok_link' = << >> THEN <<BOX_LINK_EMPTY>>
                      ELSE <<BOX_INVALID_LINK>> ]_vars

C17_Witness ==
  /\ pc = "main"
  /\ event = <<"link", "">>
  /\ tiktok_link = SubSeq(TIKTOK_COM, 1, 9)
  /\ printed = <<BOX_INVALID_LINK>>
  /\ http_requests > 0

\* C18: a PermissionError raised while download_vid writes the video file,
\* or while set_download_dir probes the directory, adds one entry to the
\* error log, the permission box is printed and the exception goes no
\* further: download_vid shows its menu again, set_download_dir returns and
\* main reaches the link prompt.
C18_PermissionErrorLoggedAndContained ==
  [][ /\ (pc = "download_vid" /\ event' = <<"video", "PermissionError">>) =>
           /\ log_entries' = log_entries + 1
           /\ printed' = <<BOX_PERMISSION>>
           /\ pc' = "download_vid"
           /\ stack' = stack
           /\ exc' = "none"
      /\ (/\ pc = "home_menu"
          /\ event' = <<"choice", "download">>
          /\ argv # NONE /\ exists(argv) /\ argv \notin writable) =>
           /\ log_entries' = log_entries + 1
           /\ printed' = <<BOX_PERMISSION>>
           /\ pc' = "main"
           /\ exc' = "none" ]_vars

\* C23: a set_download_dir(path) call that fails, because path does not
\* exist or because no file can be created in it, leaves both the global
\* download_base and the config file as they were.
C23_FailedSetChangesNothing ==
  [][ (pc' = "set_download_dir" /\ printed' # <<BOX_DIR_SET>>) =>
        (download_base' = download_base /\ config_file' = config_file) ]_vars

DownloadMenus == {"download_vid", "download_img"}

\* C22: Go Back (option 5 of download_vid, option 6 of download_img) makes
\* the home menu the next prompt and adds one main() activation on top of the
\* calls that were active; a download menu is only ever entered by a new
\* get_tiktok_links call and continued by its own loop, never resumed by a
\* return from main(), and main() activations only go away when the program
\* exits or an exception unwinds them.
C22_GoBackNestsMain ==
  [][ /\ (pc \in DownloadMenus /\ event'[1] = "Go Back") =>
           /\ pc' = "home_menu"
           /\ Depth(stack') = Depth(stack) + 1
           /\ Len(stack') > Len(stack)
           /\ SubSeq(stack', 1, Len(stack)) = stack
      /\ (pc' \in DownloadMenus /\ pc \notin DownloadMenus) =>
           (pc = "get_tiktok_links" /\ stack' = stack \o <<"get_tiktok_links.try">>)
      /\ (pc' \in DownloadMenus /\ pc \in DownloadMenus) => (pc' = pc /\ stack' = stack)
      /\ (Depth(stack') < Depth(stack)) => pc' \in {"exited", "ask_exit"} ]_vars

C22_Witness ==
  /\ pc = "home_menu"
  /\ event = <<"Go Back", "saved">>
  /\ Depth(stack) = MaxDepth
  /\ Depth(stack) >= 3
  /\ \E i, j \in 1 .. Len(stack) : stack[i] = "download_vid.loop" /\ stack[j] = "download_img.loop"

\* C21: after download_zip returned normally for n links, the archive holds
\* exactly n entries, the i-th named "<title>_imges_<i>.jpg" in link order,
\* and none of the per-image files is left on disk.
C21_ZipHoldsEveryImage ==
  pc = "zip_returned" =>
    /\ Len(zipf) = Len(links)
    /\ \A i \in 1 .. Len(zipf) : zipf[i] = img_name(zip_title, i)
    /\ \A i \in 1 .. Len(links) : locate(img_path(i)).file \notin files

==============================================================================
